---------------------------- MODULE Spec2Model ----------------------------
(***************************************************************************)
(* Background-removal scripts of py-tools/:                                *)
(*   remove_bg.py                   file path in, file path out            *)
(*   remove_bg_buffer.py            stdin in, stdout out                   *)
(*   remove_bg_optimized.py         file path, preprocessing through the   *)
(*                                  fixed file /tmp/optimized_temp.jpg     *)
(*   remove_bg_buffer_optimized.py  stdin/stdout, preprocessing in memory  *)
(*                                                                         *)
(* Spec           two invocations running with their steps interleaved on  *)
(*                one file system                                          *)
(* SpecComposite  Image.alpha_composite on one pixel (integer arithmetic   *)
(*                of the imaging library)                                  *)
(* SpecThumb      the size the preprocessing hands on (Image.thumbnail)    *)
(* SpecRead       the chunked stdin read loop of process_stream            *)
(*                                                                         *)
(* Pixel data of whole images is kept symbolically: an image is its size,  *)
(* its mode and the history of the operations that produced its pixels, so *)
(* that two images are equal exactly when they were obtained from the same *)
(* source by the same operations.  Pixel arithmetic itself is modelled in  *)
(* SpecComposite.                                                          *)
(***************************************************************************)
EXTENDS Integers, Sequences, FiniteSets, TLC

VARIABLES
    run,        \* per invocation: script, arguments, position, locals, exit
    files,      \* the file system: the shared temp file and each output file
    tmpWriter,  \* which invocation last wrote the temp file
    modelOk,    \* whether rembg's remove() works in this environment
    fgPx, outPx, cScript, cDone,       \* SpecComposite
    dimIn, dimOut, tScript, tDone,     \* SpecThumb
    stdinLen, rdPos, inputBuffer, bufPos, inputData, rpc, chunks  \* SpecRead

pipeVars == <<run, files, tmpWriter, modelOk>>
compVars == <<fgPx, outPx, cScript, cDone>>
thumbVars == <<dimIn, dimOut, tScript, tDone>>
readVars == <<stdinLen, rdPos, inputBuffer, bufPos, inputData, rpc, chunks>>
vars == <<pipeVars, compVars, thumbVars, readVars>>

Max(a, b) == IF a >= b THEN a ELSE b
Min(a, b) == IF a <= b THEN a ELSE b
Abs(a) == IF a >= 0 THEN a ELSE -a

(***************************************************************************)
(* Imaging library and model, as the scripts use them                      *)
(***************************************************************************)

\* An image: size, mode, and the history of its pixel data.
Img(w, h, mode, hist) == [w |-> w, h |-> h, mode |-> mode, hist |-> hist]
NoImg == Img(0, 0, "none", << >>)
Dims(img) == <<img.w, img.h>>

\* Encoded bytes: a container format around an image, or bytes no decoder reads
\* (an empty input included), or nothing at all.
Enc(fmt, img) == [fmt |-> fmt, img |-> img]
Garbage == Enc("garbage", NoImg)
NoBytes == Enc("none", NoImg)
Absent == Enc("absent", NoImg)

\* Image.open(...): raises on bytes that are no image.
Decodable(bytes) == bytes.fmt \in {"PNG", "JPEG", "TIFF"}
Decode(bytes) == bytes.img

\* img.convert('RGB')
ConvertRGB(img) == Img(img.w, img.h, "RGB", Append(img.hist, "convertRGB"))

\* img.convert("RGBA"): the pixels of an RGBA image are copied unchanged.
ConvertRGBA(img) ==
    IF img.mode = "RGBA" THEN img
    ELSE Img(img.w, img.h, "RGBA", Append(img.hist, "convertRGBA"))

\* The modes the JPEG encoder writes (RAWMODE of the JPEG plugin); any other
\* mode makes img.save(..., 'JPEG') raise "cannot write mode ... as JPEG".
JpegModes == {"1", "L", "RGB", "RGBX", "CMYK", "YCbCr"}
HasPaletteOrAlpha(mode) == mode \in {"P", "PA", "RGBA", "LA", "La", "RGBa"}

\* img.save(..., 'JPEG', quality=q, optimize=True): lossy.
JpegEncode(img, q) ==
    Enc("JPEG", Img(img.w, img.h, img.mode,
                    Append(img.hist, "jpeg" \o ToString(q))))

\* combined.save(..., 'PNG'): lossless.
PngEncode(img) == Enc("PNG", img)

\* rembg's remove(bytes): an RGBA PNG of the same size whose alpha channel is
\* the foreground mask; raises on bytes it cannot decode.
Remove(bytes) ==
    Enc("PNG", Img(bytes.img.w, bytes.img.h, "RGBA",
                   Append(bytes.img.hist, "rembg")))

\* Image.alpha_composite(bg, img): raises ValueError when the sizes differ.
SameSize(a, b) == a.w = b.w /\ a.h = b.h
AlphaCompositeImg(bg, img) ==
    Img(img.w, img.h, "RGBA", Append(img.hist, "over" \o bg.hist[1]))

\* Image.alpha_composite on one pixel, dst and src as <<r, g, b, a>> with 8-bit
\* channels: the integer arithmetic of the imaging library,
\*   if src.a == 0: out = dst
\*   else: blend   = dst.a * (255 - src.a)
\*         outa255 = src.a * 255 + blend
\*         coef1   = src.a * 255 * 255 * (1 << 7) / outa255
\*         coef2   = 255 * (1 << 7) - coef1
\*         out.c   = SHIFTFORDIV255(src.c * coef1 + dst.c * coef2
\*                                  + (0x80 << 7)) >> 7
\*         out.a   = SHIFTFORDIV255(outa255 + 0x80)
\*   SHIFTFORDIV255(a) = (((a >> 8) + a) >> 8)
ShiftForDiv255(a) == ((a \div 256) + a) \div 256
AlphaCompositePixel(dst, src) ==
    IF src[4] = 0 THEN dst
    ELSE LET blend == dst[4] * (255 - src[4])
             outa255 == src[4] * 255 + blend
             coef1 == (src[4] * 255 * 255 * 128) \div outa255
             coef2 == 255 * 128 - coef1
             ch(i) == ShiftForDiv255(src[i] * coef1 + dst[i] * coef2
                                     + 128 * 128) \div 128
         IN  <<ch(1), ch(2), ch(3), ShiftForDiv255(outa255 + 128)>>

\* Image.thumbnail((x, y), LANCZOS): the sizes it can resize a w*h image to.
\*   if x >= w and y >= h: unchanged
\*   aspect = w / h
\*   if x / y >= aspect: x = round_aspect(y * aspect, key |aspect - n / y|)
\*   else:               y = round_aspect(x / aspect, key 0 if n == 0
\*                                                    else |aspect - x / n|)
\*   round_aspect(number, key) = max(min(floor, ceil, key=key), 1)
\* The keys are compared exactly, by cross-multiplication; where the two keys
\* are exactly equal the floating-point comparison may go either way, so
\* both candidates are possible.
Floor(n, d) == n \div d
Ceil(n, d) == (n \div d) + (IF n % d = 0 THEN 0 ELSE 1)

\* candidates of round_aspect for the width: key(n) = |w/h - n/y|
RoundAspectX(w, h, y) ==
    LET f == Floor(y * w, h)
        c == Ceil(y * w, h)
        kf == Abs(w * y - f * h)
        kc == Abs(w * y - c * h)
    IN  {Max(n, 1) : n \in {m \in {f, c} :
                              (m = f /\ kf <= kc) \/ (m = c /\ kc <= kf)}}

\* candidates of round_aspect for the height: key(n) = 0 if n == 0
\* else |w/h - x/n|
RoundAspectY(w, h, x) ==
    LET f == Floor(x * h, w)
        c == Ceil(x * h, w)
        kf == Abs(w * f - x * h) * c      \* key(f) * h * f * c
        kc == Abs(w * c - x * h) * f      \* key(c) * h * f * c
    IN  IF f = 0 THEN {1}
        ELSE {Max(n, 1) : n \in {m \in {f, c} :
                              (m = f /\ kf <= kc) \/ (m = c /\ kc <= kf)}}

ThumbnailSizes(w, h, x, y) ==
    IF x >= w /\ y >= h THEN {<<w, h>>}
    ELSE IF x * h >= y * w
         THEN {<<nx, y>> : nx \in RoundAspectX(w, h, y)}
         ELSE {<<x, ny>> : ny \in RoundAspectY(w, h, x)}

\* the image after img.thumbnail: resampled when the size changes
Resized(img, sz) ==
    IF sz = <<img.w, img.h>> THEN img
    ELSE Img(sz[1], sz[2], img.mode, Append(img.hist, "lanczos"))

(***************************************************************************)
(* Constants of the scripts                                                *)
(***************************************************************************)
MAX_DIMENSION == 800          \* remove_bg_optimized.py
COMPRESSION_QUALITY == 85
BUF_MAX_DIMENSION == 800      \* remove_bg_buffer_optimized.py
BUF_COMPRESSION_QUALITY == 85
chunk_size == 256 * 1024

Scripts == {"remove_bg", "remove_bg_buffer",
            "remove_bg_optimized", "remove_bg_buffer_optimized"}
FileScripts == {"remove_bg", "remove_bg_optimized"}
StreamScripts == {"remove_bg_buffer", "remove_bg_buffer_optimized"}
OptimizedScripts == {"remove_bg_optimized", "remove_bg_buffer_optimized"}

\* sys.exit(1) after the usage line, after "Input file not found", and in
\* optimize_image's handler; sys.exit(0 if success else 1) at the end of both
\* optimized scripts; the interpreter's status for the plain scripts.
UsageExit == 1
NotFoundExit == 1
OptimizeFailExit == 1
ExitStatus(success) == IF success THEN 0 ELSE 1
BufExitStatus(success) == IF success THEN 0 ELSE 1
UncaughtExit == 1
NormalExit == 0

(***************************************************************************)
(* Preprocessing of the optimized scripts                                  *)
(***************************************************************************)

\* optimize_image, lines 23-28: the images it can hand to the JPEG encoder
OptimizeConvert(img) ==
    IF img.mode \in {"RGBA", "LA", "P"} THEN ConvertRGB(img) ELSE img

\* (variant: resize only when both sides exceed the maximum)
OptimizeSizesBothOver(img) ==
    IF img.w > MAX_DIMENSION /\ img.h > MAX_DIMENSION
    THEN ThumbnailSizes(img.w, img.h, MAX_DIMENSION, MAX_DIMENSION)
    ELSE {<<img.w, img.h>>}

OptimizeSizes(img) ==
    IF img.w > MAX_DIMENSION \/ img.h > MAX_DIMENSION
    THEN ThumbnailSizes(img.w, img.h, MAX_DIMENSION, MAX_DIMENSION)
    ELSE {<<img.w, img.h>>}

optimize_image(img) ==
    LET rgb == OptimizeConvert(img)
    IN  {Resized(rgb, sz) : sz \in OptimizeSizes(rgb)}

\* (variant: palette images are not converted)
StreamConvertNoPalette(img) ==
    IF img.mode \in {"RGBA", "LA"} THEN ConvertRGB(img) ELSE img

\* process_stream, lines 36-41
StreamConvert(img) ==
    IF img.mode \in {"RGBA", "LA", "P"} THEN ConvertRGB(img) ELSE img

StreamSizes(img) ==
    IF img.w > BUF_MAX_DIMENSION \/ img.h > BUF_MAX_DIMENSION
    THEN ThumbnailSizes(img.w, img.h, BUF_MAX_DIMENSION, BUF_MAX_DIMENSION)
    ELSE {<<img.w, img.h>>}

stream_optimize(img) ==
    LET rgb == StreamConvert(img)
    IN  {Resized(rgb, sz) : sz \in StreamSizes(rgb)}

(***************************************************************************)
(* Compositing                                                             *)
(***************************************************************************)
\* bg_color of each script, as <<r, g, b, a>>
bg_color_file == <<239, 246, 255, 255>>
bg_color_buffer == <<239, 246, 255, 255>>
bg_color_optimized == <<239, 246, 255, 255>>
bg_color_buffer_optimized == <<239, 246, 255, 255>>

bg_color(script) ==
    CASE script = "remove_bg" -> bg_color_file
      [] script = "remove_bg_buffer" -> bg_color_buffer
      [] script = "remove_bg_optimized" -> bg_color_optimized
      [] script = "remove_bg_buffer_optimized" -> bg_color_buffer_optimized

ColourName(c) ==
    "bg" \o ToString(c[1]) \o "_" \o ToString(c[2]) \o "_"
         \o ToString(c[3]) \o "_" \o ToString(c[4])

\* (variant: the arguments of alpha_composite exchanged)
CompositePxSwapped(script, fg) == AlphaCompositePixel(fg, bg_color(script))

\* Image.alpha_composite(bg, img) at one pixel of img
CompositePx(script, fg) == AlphaCompositePixel(bg_color(script), fg)

\* (variant: a canvas of the maximum size whatever the foreground)
FixedCanvasSize(img) == <<MAX_DIMENSION, MAX_DIMENSION>>

\* Image.new("RGBA", img.size, bg_color)
CanvasSize(img) == <<img.w, img.h>>
NewCanvas(script, img) ==
    Img(CanvasSize(img)[1], CanvasSize(img)[2], "RGBA",
        <<ColourName(bg_color(script))>>)


(***************************************************************************)
(* The invocations                                                         *)
(***************************************************************************)
Procs == {"A", "B"}
Tmp == "/tmp/optimized_temp.jpg"
OutPath(p) == "out_" \o p
Paths == {Tmp} \cup {OutPath(p) : p \in Procs}

\* what an invocation can be given
NoFile == Enc("nofile", NoImg)       \* the input path does not exist
BadArgv == Enc("badargv", NoImg)     \* not exactly two arguments
Sample1 == Enc("JPEG", Img(640, 480, "RGB", <<"s1">>))
Sample2 == Enc("PNG", Img(1000, 1000, "RGBA", <<"s2">>))
Sample3 == Enc("PNG", Img(1600, 600, "P", <<"s3">>))
Sample4 == Enc("PNG", Img(300, 900, "I", <<"s4">>))   \* 16-bit greyscale
Sample5 == Enc("TIFF", Img(990, 3, "LA", <<"s5">>))
SampleInputs == {Sample1, Sample2, Sample3, Sample4, Sample5}

InputsOf(script) ==
    {Garbage} \cup SampleInputs
        \cup (IF script \in FileScripts THEN {NoFile} ELSE {})
        \cup (IF script = "remove_bg_optimized" THEN {BadArgv} ELSE {})

\* whether the output destination can be written (for a path: its directory
\* exists and is writable)
OutOkOf(script) == IF script \in FileScripts THEN BOOLEAN ELSE {TRUE}

NewRun(script, input, outOk) ==
    [script |-> script, input |-> input, outOk |-> outOk,
     pc |-> "main",
     data |-> NoBytes,        \* input_data / optimized_data / output_data
     img |-> NoImg,           \* img, then combined
     exit |-> -1,             \* exit status once the process has ended
     diag |-> FALSE,          \* a diagnostic was printed
     stdout |-> NoBytes,      \* what was written to standard output
     \* history of the run
     pre |-> NoImg,           \* the image handed to the JPEG encoder
     modelIn |-> NoBytes,     \* the bytes passed to remove()
     calls |-> 0,             \* calls of remove()
     fg |-> NoImg,            \* the foreground composited
     failStage |-> "none",
     createdTmp |-> FALSE]

\* a temp file an earlier run may have left behind
Stale == Enc("JPEG", Img(800, 600, "RGB", <<"s0", "jpeg85">>))

InitPipe ==
    /\ run \in [Procs -> UNION {
                   {NewRun(sc, inp, ok) : inp \in InputsOf(sc),
                                          ok \in OutOkOf(sc)} :
                   sc \in Scripts}]
    /\ files \in {[f \in Paths |-> IF f = Tmp THEN t ELSE Absent] :
                     t \in {Absent, Stale}}
    /\ tmpWriter = "nobody"
    /\ modelOk \in BOOLEAN

IdlePipe ==
    /\ run = [p \in Procs |-> [NewRun("remove_bg", NoFile, TRUE)
                                  EXCEPT !.pc = "idle"]]
    /\ files = [f \in Paths |-> Absent]
    /\ tmpWriter = "nobody"
    /\ modelOk = TRUE

\* (variant: the handler reports the failure and ends with status 0)
FailedStatusZero(r, stage, status) ==
    [r EXCEPT !.pc = "done", !.exit = 0, !.diag = TRUE, !.failStage = stage]

\* the process ends with a diagnostic and the given status
Failed(r, stage, status) ==
    [r EXCEPT !.pc = "done", !.exit = status, !.diag = TRUE,
              !.failStage = stage]
Succeeded(r, status) == [r EXCEPT !.pc = "done", !.exit = status]

\* the status a failure inside the try block ends in
FailStatus(script) ==
    CASE script = "remove_bg_optimized" -> ExitStatus(FALSE)
      [] script = "remove_bg_buffer_optimized" -> BufExitStatus(FALSE)
      [] OTHER -> UncaughtExit
OkStatus(script) ==
    CASE script = "remove_bg_optimized" -> ExitStatus(TRUE)
      [] script = "remove_bg_buffer_optimized" -> BufExitStatus(TRUE)
      [] OTHER -> NormalExit

\* remove_bg_optimized.py, __main__: argument count and os.path.exists
InputExists(input) == input # NoFile
OptMain(p) ==
    /\ run[p].pc = "main" /\ run[p].script = "remove_bg_optimized"
    /\ run' = [run EXCEPT ![p] =
          IF run[p].input = BadArgv THEN Failed(@, "usage", UsageExit)
          ELSE IF ~InputExists(run[p].input)
               THEN Failed(@, "missing", NotFoundExit)
               ELSE [@ EXCEPT !.pc = "optimize"]]
    /\ UNCHANGED <<files, tmpWriter, modelOk>>

\* optimize_image: open, convert, thumbnail, save to the temp file.  A save
\* that raises leaves no file it created, and an emptied file where one was.
OptOptimize(p) ==
    /\ run[p].pc = "optimize"
    /\ IF ~Decodable(run[p].input)
       THEN /\ run' = [run EXCEPT ![p] =
                          Failed(@, "decode", OptimizeFailExit)]
            /\ UNCHANGED <<files, tmpWriter>>
       ELSE \E im \in optimize_image(Decode(run[p].input)) :
              IF im.mode \notin JpegModes
              THEN /\ run' = [run EXCEPT ![p] =
                         Failed([@ EXCEPT !.pre = im], "jpeg_mode",
                                OptimizeFailExit)]
                   /\ files' = [files EXCEPT ![Tmp] =
                         IF @ = Absent THEN Absent ELSE Garbage]
                   /\ UNCHANGED tmpWriter
              ELSE /\ run' = [run EXCEPT ![p] =
                         [@ EXCEPT !.pc = "read_optimized", !.pre = im,
                                   !.createdTmp = TRUE]]
                   /\ files' = [files EXCEPT ![Tmp] =
                         JpegEncode(im, COMPRESSION_QUALITY)]
                   /\ tmpWriter' = p
    /\ UNCHANGED modelOk

\* process_background_removal, step 2: open(optimized_path).read()
OptReadOptimized(p) ==
    /\ run[p].pc = "read_optimized"
    /\ run' = [run EXCEPT ![p] =
          IF files[Tmp] = Absent
          THEN Failed(@, "read_temp", FailStatus(@.script))
          ELSE [@ EXCEPT !.pc = "remove", !.data = files[Tmp]]]
    /\ UNCHANGED <<files, tmpWriter, modelOk>>

\* remove_bg_buffer_optimized.py, process_stream up to the JPEG buffer: the
\* chunked read (SpecRead) yields the whole of stdin
StreamMain(p) ==
    /\ run[p].pc = "main" /\ run[p].script = "remove_bg_buffer_optimized"
    /\ IF ~Decodable(run[p].input)
       THEN run' = [run EXCEPT ![p] =
                       Failed(@, "decode", FailStatus(@.script))]
       ELSE \E im \in stream_optimize(Decode(run[p].input)) :
              run' = [run EXCEPT ![p] =
                 IF im.mode \notin JpegModes
                 THEN Failed([@ EXCEPT !.pre = im], "jpeg_mode",
                             FailStatus(@.script))
                 ELSE [@ EXCEPT !.pc = "remove", !.pre = im,
                          !.data = JpegEncode(im, BUF_COMPRESSION_QUALITY)]]
    /\ UNCHANGED <<files, tmpWriter, modelOk>>

\* remove_bg.py: open(input_path, 'rb').read(); an exception is not caught
PlainFileMain(p) ==
    /\ run[p].pc = "main" /\ run[p].script = "remove_bg"
    /\ run' = [run EXCEPT ![p] =
          IF ~InputExists(run[p].input)
          THEN Failed(@, "missing", FailStatus(@.script))
          ELSE [@ EXCEPT !.pc = "remove", !.data = run[p].input]]
    /\ UNCHANGED <<files, tmpWriter, modelOk>>

\* remove_bg_buffer.py: sys.stdin.buffer.read()
PlainStreamMain(p) ==
    /\ run[p].pc = "main" /\ run[p].script = "remove_bg_buffer"
    /\ run' = [run EXCEPT ![p] =
                  [@ EXCEPT !.pc = "remove", !.data = run[p].input]]
    /\ UNCHANGED <<files, tmpWriter, modelOk>>

\* output_data = remove(input_data), in all four scripts
CallRemove(p) ==
    /\ run[p].pc = "remove"
    /\ run' = [run EXCEPT ![p] =
          LET r == [@ EXCEPT !.modelIn = run[p].data, !.calls = @ + 1]
          IN  IF ~modelOk \/ ~Decodable(r.data)
              THEN Failed(r, "model", FailStatus(r.script))
              ELSE [r EXCEPT !.pc = "composite", !.data = Remove(r.data)]]
    /\ UNCHANGED <<files, tmpWriter, modelOk>>

\* Image.open(...).convert("RGBA"); Image.new; Image.alpha_composite
Composite(p) ==
    /\ run[p].pc = "composite"
    /\ run' = [run EXCEPT ![p] =
          LET img == ConvertRGBA(Decode(@.data))
              bg == NewCanvas(@.script, img)
          IN  IF ~SameSize(bg, img)
              THEN Failed([@ EXCEPT !.fg = img], "composite",
                          FailStatus(@.script))
              ELSE [@ EXCEPT !.pc = "output", !.fg = img,
                             !.img = AlphaCompositeImg(bg, img)]]
    /\ UNCHANGED <<files, tmpWriter, modelOk>>

\* combined.save(output_path, ...) of the two file scripts
SaveOutput(p) ==
    /\ run[p].pc = "output" /\ run[p].script \in FileScripts
    /\ IF ~run[p].outOk
       THEN /\ run' = [run EXCEPT ![p] =
                          Failed(@, "write", FailStatus(@.script))]
            /\ UNCHANGED files
       ELSE /\ files' = [files EXCEPT ![OutPath(p)] = PngEncode(run[p].img)]
            /\ run' = [run EXCEPT ![p] =
                  IF @.script = "remove_bg_optimized"
                  THEN [@ EXCEPT !.pc = "cleanup"]
                  ELSE Succeeded(@, OkStatus(@.script))]
    /\ UNCHANGED <<tmpWriter, modelOk>>

\* sys.stdout.buffer.write(...) of the two stream scripts
WriteStdout(p) ==
    /\ run[p].pc = "output" /\ run[p].script \in StreamScripts
    /\ run' = [run EXCEPT ![p] =
          Succeeded([@ EXCEPT !.stdout = PngEncode(run[p].img)],
                    OkStatus(@.script))]
    /\ UNCHANGED <<files, tmpWriter, modelOk>>

\* cleanup of remove_bg_optimized.py: if os.path.exists(optimized_path)
CleanupExists(p) ==
    /\ run[p].pc = "cleanup"
    /\ run' = [run EXCEPT ![p] =
          IF files[Tmp] # Absent THEN [@ EXCEPT !.pc = "cleanup_remove"]
          ELSE Succeeded(@, OkStatus(@.script))]
    /\ UNCHANGED <<files, tmpWriter, modelOk>>

\* os.remove(optimized_path): raises FileNotFoundError when the file is gone
CleanupRemove(p) ==
    /\ run[p].pc = "cleanup_remove"
    /\ IF files[Tmp] = Absent
       THEN /\ run' = [run EXCEPT ![p] =
                          Failed(@, "cleanup", FailStatus(@.script))]
            /\ UNCHANGED files
       ELSE /\ files' = [files EXCEPT ![Tmp] = Absent]
            /\ run' = [run EXCEPT ![p] = Succeeded(@, OkStatus(@.script))]
    /\ UNCHANGED <<tmpWriter, modelOk>>

IdleOthers == UNCHANGED <<compVars, thumbVars, readVars>>

InitIdleComposite ==
    /\ fgPx = <<0, 0, 0, 0>> /\ outPx = <<0, 0, 0, 0>>
    /\ cScript = "remove_bg" /\ cDone = TRUE
InitIdleThumb ==
    /\ dimIn = <<1, 1>> /\ dimOut = <<1, 1>>
    /\ tScript = "remove_bg_optimized" /\ tDone = TRUE
InitIdleRead ==
    /\ stdinLen = 0 /\ rdPos = 0 /\ inputBuffer = << >> /\ bufPos = 0
    /\ inputData = << >> /\ rpc = "idle" /\ chunks = << >>

Init == InitPipe /\ InitIdleComposite /\ InitIdleThumb /\ InitIdleRead

Next ==
    \E p \in Procs :
        \/ OptMain(p) /\ IdleOthers
        \/ OptOptimize(p) /\ IdleOthers
        \/ OptReadOptimized(p) /\ IdleOthers
        \/ StreamMain(p) /\ IdleOthers
        \/ PlainFileMain(p) /\ IdleOthers
        \/ PlainStreamMain(p) /\ IdleOthers
        \/ CallRemove(p) /\ IdleOthers
        \/ Composite(p) /\ IdleOthers
        \/ SaveOutput(p) /\ IdleOthers
        \/ WriteStdout(p) /\ IdleOthers
        \/ CleanupExists(p) /\ IdleOthers
        \/ CleanupRemove(p) /\ IdleOthers

Spec == Init /\ [][Next]_vars


(***************************************************************************)
(* Properties of the invocations (Spec)                                    *)
(***************************************************************************)
Done(p) == run[p].pc = "done"

\* what the invocation has written to its destination
OutputOf(p) ==
    IF run[p].script \in FileScripts THEN files[OutPath(p)]
    ELSE run[p].stdout
NoOutput(p) == OutputOf(p) \in {Absent, NoBytes}

\* C1: every run of an optimized script ends either with status 0 and the
\* complete encoded output written, or with status 1, a diagnostic and no
\* output written.
C1_AllOrNothing ==
    \A p \in Procs :
        (Done(p) /\ run[p].script \in OptimizedScripts) =>
            \/ /\ run[p].exit = 0
               /\ OutputOf(p) = PngEncode(run[p].img) /\ ~NoOutput(p)
            \/ /\ run[p].exit = 1 /\ run[p].diag /\ NoOutput(p)

\* C2: with a missing input path the process exits with status 1, creates
\* or modifies no output file, creates no temporary file and never invokes
\* the model.
C2_MissingInput ==
    \A p \in Procs :
        (run[p].script \in FileScripts /\ run[p].input = NoFile) =>
            /\ run[p].calls = 0
            /\ ~run[p].createdTmp
            /\ files[OutPath(p)] = Absent
            /\ run[p].exit \in {-1, 1}
            /\ Done(p) => run[p].exit = 1

C2_Witness ==
    /\ run["A"].script = "remove_bg_optimized" /\ run["A"].input = NoFile
    /\ run["B"].script = "remove_bg" /\ run["B"].input = NoFile
    /\ Done("A") /\ Done("B")
    /\ run["A"].failStage = "missing" /\ run["B"].failStage = "missing"

\* C5: on every successful run the written image has the width and height of
\* the foreground the model returned, which are those of the preprocessed
\* image the model was given; the canvas has the foreground's size, so
\* compositing never fails on a size mismatch.
\* the model was given the bytes this run's preprocessing produced
OwnModelInput(p) ==
    run[p].modelIn =
        JpegEncode(run[p].pre,
                   IF run[p].script = "remove_bg_optimized"
                   THEN COMPRESSION_QUALITY ELSE BUF_COMPRESSION_QUALITY)

C5_OutputDims ==
    \A p \in Procs :
        /\ run[p].failStage # "composite"
        /\ (Done(p) /\ run[p].exit = 0) =>
              /\ Decodable(OutputOf(p))
              /\ Dims(Decode(OutputOf(p))) = Dims(run[p].fg)
              /\ Dims(run[p].fg) = Dims(Decode(run[p].modelIn))
              /\ (run[p].script \in OptimizedScripts /\ OwnModelInput(p))
                   => Dims(Decode(OutputOf(p))) = Dims(run[p].pre)
              /\ run[p].script \notin OptimizedScripts
                   => Dims(Decode(OutputOf(p))) = Dims(Decode(run[p].input))

C5_Witness ==
    \E p \in Procs :
        /\ Done(p) /\ run[p].exit = 0
        /\ run[p].script = "remove_bg_optimized" /\ run[p].input = Sample3
        /\ Dims(Decode(OutputOf(p))) = <<800, 300>>

\* C6: on identical input bytes the stream script and its file-path
\* counterpart pass through the same stages with the same intermediate
\* values, end with the same exit status and, when they succeed, write the
\* same composited image.
Counterparts(f, s) ==
    \/ f = "remove_bg_optimized" /\ s = "remove_bg_buffer_optimized"
    \/ f = "remove_bg" /\ s = "remove_bg_buffer"

C6_StreamFileEquivalent ==
    \A p, q \in Procs :
        (/\ Counterparts(run[p].script, run[q].script)
         /\ run[p].input = run[q].input /\ run[p].outOk
         /\ Done(p) /\ Done(q)) =>
            /\ run[p].exit = run[q].exit
            /\ run[p].failStage = run[q].failStage
            /\ run[p].pre = run[q].pre
            /\ run[p].modelIn = run[q].modelIn
            /\ run[p].fg = run[q].fg
            /\ run[p].img = run[q].img
            /\ run[p].exit = 0 =>
                 Decode(files[OutPath(p)]) = Decode(run[q].stdout)

C6_Witness ==
    /\ run["A"].script = "remove_bg_optimized"
    /\ run["B"].script = "remove_bg_buffer_optimized"
    /\ run["A"].input = Sample3 /\ run["B"].input = Sample3
    /\ Done("A") /\ Done("B") /\ run["A"].exit = 0 /\ run["B"].exit = 0
    /\ Decode(files[OutPath("A")]) = Decode(run["B"].stdout)

\* C7: at the end of every run of remove_bg_optimized.py that created the
\* temporary file, the file it created has been removed, whether the run
\* succeeded or failed at a later stage.
C7_TempRemoved ==
    \A p \in Procs :
        (Done(p) /\ run[p].createdTmp) =>
            ~(files[Tmp] # Absent /\ tmpWriter = p)

\* C8: two invocations of remove_bg_optimized.py with different inputs and
\* different output paths do not affect one another: each passes to the
\* model the preprocessed bytes of its own input, writes the composite of
\* its own input, and ends as it would on its own.
SoloPre(input) == CHOOSE im \in optimize_image(Decode(input)) : TRUE
SoloModelIn(input) == JpegEncode(SoloPre(input), COMPRESSION_QUALITY)
SoloOk(r) ==
    /\ Decodable(r.input) /\ SoloPre(r.input).mode \in JpegModes
    /\ modelOk /\ r.outOk
SoloOutput(r) ==
    LET fg == ConvertRGBA(Decode(Remove(SoloModelIn(r.input))))
    IN  PngEncode(AlphaCompositeImg(NewCanvas(r.script, fg), fg))

C8_RunsIndependent ==
    \A p, q \in Procs :
        (/\ p # q
         /\ run[p].script = "remove_bg_optimized"
         /\ run[q].script = "remove_bg_optimized"
         /\ run[p].input # run[q].input) =>
            /\ run[p].calls > 0 => run[p].modelIn = SoloModelIn(run[p].input)
            /\ Done(p) =>
                 /\ run[p].exit = ExitStatus(SoloOk(run[p]))
                 /\ run[p].exit = 0 => files[OutPath(p)] = SoloOutput(run[p])

\* C9: the preprocessor never hands the JPEG encoder an image with a palette
\* or an alpha channel, and the re-encoding never fails because of the
\* colour mode of a decodable input.
C9_ModeNormalised ==
    \A p \in Procs :
        /\ run[p].pre # NoImg => ~HasPaletteOrAlpha(run[p].pre.mode)
        /\ run[p].failStage # "jpeg_mode"


(***************************************************************************)
(* SpecComposite: the compositor on one foreground pixel                   *)
(***************************************************************************)
AlphaSamples == {0, 1, 2, 127, 128, 254, 255}
ChannelSamples == {0, 128, 255}
FgPixels ==
    {<<r, g, b, a>> : r \in 0..255, g \in ChannelSamples,
                      b \in ChannelSamples, a \in AlphaSamples}

InitComposite ==
    /\ fgPx \in FgPixels /\ cScript \in Scripts
    /\ outPx = <<0, 0, 0, 0>> /\ cDone = FALSE
    /\ IdlePipe /\ InitIdleThumb /\ InitIdleRead

\* the pixel of the model's RGBA output, composited over the canvas pixel
CompositePixel ==
    /\ ~cDone
    /\ outPx' = CompositePx(cScript, fgPx)
    /\ cDone' = TRUE
    /\ UNCHANGED <<fgPx, cScript, pipeVars, thumbVars, readVars>>

SpecComposite == InitComposite /\ [][CompositePixel]_vars

\* C3: in all four scripts the output pixel is the foreground's colour with
\* alpha 255 when the foreground alpha is 255, and exactly the background
\* colour (239, 246, 255, 255) when the foreground alpha is 0.
C3_OpaqueAndTransparent ==
    cDone =>
        /\ fgPx[4] = 255 => outPx = <<fgPx[1], fgPx[2], fgPx[3], 255>>
        /\ fgPx[4] = 0 => outPx = <<239, 246, 255, 255>>

C3_Witness ==
    /\ cDone /\ cScript = "remove_bg_buffer_optimized"
    /\ fgPx = <<17, 128, 0, 255>> /\ outPx = <<17, 128, 0, 255>>

(***************************************************************************)
(* SpecThumb: the size the preprocessing hands to the model                *)
(***************************************************************************)
DimLow == 12
DimNear == 10
DimSamples ==
    (1..DimLow)
      \cup ((MAX_DIMENSION - DimNear)..(MAX_DIMENSION + DimNear))
      \cup {990, 1000, 1199, 1600, 1601, 2400, 4000}

InitThumb ==
    /\ dimIn \in DimSamples \X DimSamples
    /\ tScript \in OptimizedScripts
    /\ dimOut = <<0, 0>> /\ tDone = FALSE
    /\ IdlePipe /\ InitIdleComposite /\ InitIdleRead

PreprocessSizes(script, img) ==
    IF script = "remove_bg_optimized"
    THEN {Dims(im) : im \in optimize_image(img)}
    ELSE {Dims(im) : im \in stream_optimize(img)}

Preprocess ==
    /\ ~tDone
    /\ dimOut' \in PreprocessSizes(tScript,
                       Img(dimIn[1], dimIn[2], "RGB", <<"src">>))
    /\ tDone' = TRUE
    /\ UNCHANGED <<dimIn, tScript, pipeVars, compVars, readVars>>

SpecThumb == InitThumb /\ [][Preprocess]_vars

\* the scaled side n/d as an integer: rounded down or up, at least 1
Rounded(n, d) == {Max(1, Floor(n, d)), Max(1, Ceil(n, d))}

MaxChunks == 2
MaxShortReads == 2

StdinLengths ==
    {k * chunk_size + d : k \in 0..MaxChunks, d \in {0, 1, chunk_size - 1}}

RECURSIVE BufLen(_)
BufLen(buf) == IF buf = << >> THEN 0 ELSE buf[1][2] + BufLen(Tail(buf))

\* the bytes of buf from byte position pos on
RECURSIVE DropBytes(_, _)
DropBytes(buf, pos) ==
    IF buf = << >> \/ pos = 0 THEN buf
    ELSE IF pos >= buf[1][2] THEN DropBytes(Tail(buf), pos - buf[1][2])
         ELSE <<(<<buf[1][1] + pos, buf[1][2] - pos>>)>> \o Tail(buf)

\* the first n bytes of buf
RECURSIVE TakeBytes(_, _)
TakeBytes(buf, n) ==
    IF buf = << >> \/ n = 0 THEN << >>
    ELSE IF n >= buf[1][2]
         THEN <<buf[1]>> \o TakeBytes(Tail(buf), n - buf[1][2])
         ELSE <<(<<buf[1][1], n>>)>>

\* adjacent extents that continue one another are the same bytes as one extent
RECURSIVE Coalesce(_)
Coalesce(buf) ==
    IF Len(buf) < 2 THEN buf
    ELSE IF buf[1][1] + buf[1][2] = buf[2][1]
         THEN Coalesce(<<(<<buf[1][1], buf[1][2] + buf[2][2]>>)>>
                          \o Tail(Tail(buf)))
         ELSE <<buf[1]>> \o Coalesce(Tail(buf))

\* BytesIO.write(chunk) at position pos: overwrites from pos, extends the end
BytesIOWrite(buf, pos, chunk) ==
    TakeBytes(buf, pos) \o <<chunk>> \o DropBytes(buf, pos + chunk[2])

\* BytesIO.read() at position pos: everything from pos to the end
BytesIORead(buf, pos) == DropBytes(buf, pos)

\* sys.stdin.buffer.read(chunk_size): empty only at end of input; otherwise
\* at most chunk_size bytes, and fewer than asked when the stream delivers
\* less (at most MaxShortReads such reads are followed)
ShortReadCount == Cardinality({i \in DOMAIN chunks :
                                 chunks[i] > 0 /\ chunks[i] < chunk_size})
ChunkLengths(remaining) ==
    IF remaining = 0 THEN {0}
    ELSE LET full == Min(chunk_size, remaining)
         IN  {full} \cup (IF ShortReadCount < MaxShortReads
                          THEN {n \in {1, full - 1} : n >= 1}
                          ELSE {})

\* (variant: a chunk shorter than asked is taken for the end of input)
ShortChunkEndsLoop(n) == n < chunk_size

\* "if not chunk: break"
LoopEnds(n) == n = 0

InitRead ==
    /\ stdinLen \in StdinLengths
    /\ rdPos = 0 /\ inputBuffer = << >> /\ bufPos = 0
    /\ inputData = << >> /\ rpc = "loop" /\ chunks = << >>
    /\ IdlePipe /\ InitIdleComposite /\ InitIdleThumb

\* one turn of the while loop, lines 23-27
ReadChunk ==
    /\ rpc = "loop"
    /\ \E n \in ChunkLengths(stdinLen - rdPos) :
         /\ chunks' = Append(chunks, n)
         /\ rdPos' = rdPos + n
         /\ IF LoopEnds(n)
            THEN /\ rpc' = "seek"
                 /\ UNCHANGED <<inputBuffer, bufPos>>
            ELSE /\ inputBuffer' =
                        BytesIOWrite(inputBuffer, bufPos, <<rdPos, n>>)
                 /\ bufPos' = bufPos + n
                 /\ UNCHANGED rpc
    /\ UNCHANGED <<stdinLen, inputData, pipeVars, compVars, thumbVars>>

\* input_buffer.seek(0)
Seek ==
    /\ rpc = "seek"
    /\ bufPos' = 0
    /\ rpc' = "read"
    /\ UNCHANGED <<stdinLen, rdPos, inputBuffer, inputData, chunks,
                   pipeVars, compVars, thumbVars>>

\* input_data = input_buffer.read(); input_buffer.close()
ReadAll ==
    /\ rpc = "read"
    /\ inputData' = Coalesce(BytesIORead(inputBuffer, bufPos))
    /\ bufPos' = BufLen(inputBuffer)
    /\ rpc' = "done"
    /\ UNCHANGED <<stdinLen, rdPos, inputBuffer, chunks,
                   pipeVars, compVars, thumbVars>>

NextRead == ReadChunk \/ Seek \/ ReadAll

\* the interpreter runs the next statement of a sequential script
SpecRead == InitRead /\ [][NextRead]_vars /\ WF_vars(NextRead)

WholeInput == IF stdinLen = 0 THEN << >> ELSE <<(<<0, stdinLen>>)>>

ReadResultRight ==
    /\ rpc \in {"seek", "read", "done"} =>
          /\ chunks[Len(chunks)] = 0
          /\ \A i \in 1..(Len(chunks) - 1) : chunks[i] > 0
          /\ rdPos = stdinLen
    /\ rpc = "done" => inputData = WholeInput

\* C10: for a finite standard input of any length the read loop terminates,
\* at the first empty read, and the bytes passed to the decoder are the whole
\* input in its original order: no chunk lost, duplicated or reordered.
C10_ChunkedRead == []ReadResultRight /\ <>(rpc = "done")

C10_Witness ==
    /\ rpc = "done" /\ stdinLen = 2 * chunk_size
    /\ chunks = <<chunk_size, chunk_size, 0>>
    /\ inputData = <<(<<0, 2 * chunk_size>>)>>

=============================================================================
